---- MODULE Spec2Model ----
(***************************************************************************)
(* happy-code: the ReAct reasoning loop of ChatInterface, the section      *)
(* parser of AIProvider and the ToolRegistry dispatch layer.               *)
(*                                                                         *)
(* Texts produced by the model backend are modelled as sequences of        *)
(* labelled sections (Thought / Action / Observation / Final Answer, each  *)
(* starting on a line of its own) with a class of content per section.     *)
(* An unset optional field (undefined in the source) and the empty string  *)
(* are both written "": the source only ever tests such fields for         *)
(* truthiness.  An optional object is a sequence of length 0 or 1.         *)
(***************************************************************************)
EXTENDS Integers, Sequences, FiniteSets, TLC

\* ------------------------------------------------------------------------
\* Bounds of the model
\* ------------------------------------------------------------------------
\* labelled sections in one model response
MaxSections == 4
\* entries into generateReActResponse counted per user message (saturating)
MaxEntries == 3
\* a new user message is accepted while the session log is shorter than this
MaxHistory == 1
\* key=value items in the argument text of one action
MaxPairs == 2
\* entries above which reactModeCache is cleared; stands for CACHE_MAX_SIZE,
\* 100 in the source
MaxCacheSize == 3
\* messages in the log of one session of the SessionManager
MaxLog == 3

\* ------------------------------------------------------------------------
\* Program constants
\* ------------------------------------------------------------------------
maxSteps == 10
maxConsecutiveErrors == 3

\* ------------------------------------------------------------------------
\* Texts
\* ------------------------------------------------------------------------
\* A JavaScript value of a parameter: its type and its canonical text
TV(t, v) == [t |-> t, v |-> v]
Undefined == TV("undefined", "")
Str(v) == TV("string", v)

\* One key / value item of an argument text: the key, how the value is quoted
\* ("dq", "sq" or "none" for a bare token) and the characters of the value
Pair(key, quote, raw) == [key |-> key, quote |-> quote, raw |-> raw]

\* The text between the parentheses of an action, by its form:
\*   "empty"   nothing            "json"    a JSON object  {"key": value, ...}
\*   "kv"      key=value, ...     "single"  one positional value
\*   "lines"   key: value lines under a tool-name line
ParamsText(form, pairs) == [form |-> form, pairs |-> pairs]
NoParams == ParamsText("empty", <<>>)

Thought(c) == [type |-> "Thought", content |-> c, name |-> "", args |-> NoParams]
Observation(c) == [type |-> "Observation", content |-> c, name |-> "", args |-> NoParams]
FinalAnswerSection(c) ==
    [type |-> "Final Answer", content |-> c, name |-> "", args |-> NoParams]
\* an Action section; content is the form of the action string:
\*   "call"  identifier(arguments)     "lines"  identifier, then key: value lines
\*   "other" anything else
ActionSection(form, name, args) ==
    [type |-> "Action", content |-> form, name |-> name, args |-> args]
\* text in front of the first label
Prose == [type |-> "Prose", content |-> "prose", name |-> "", args |-> NoParams]

\* classes of thought text: "short" has 50 characters, "limit" exactly 100,
\* "long" 150, none of them with a conclusion keyword; "keyword" has 50
\* characters and holds one.  The content of a section holds no line that
\* starts with a label word.
ThoughtTexts == {"short", "limit", "long", "keyword"}

length(thought) ==
    CASE thought = "limit" -> 100
      [] thought = "long" -> 150
      [] thought = "" -> 0
      [] OTHER -> 50

\* finalAnswerIndicators.some(indicator => lowerThought.includes(indicator))
includesIndicator(thought) == thought = "keyword"

\* the tools of the default registry and the unregistered name the
\* tool_call(command=...) form produces
DefaultTools == {"Read", "Write", "Edit", "Glob", "Grep", "Bash"}

ReadCall == ActionSection("call", "Read", ParamsText("kv", <<Pair("file_path", "dq", "./a.ts")>>))
ShellCall ==
    ActionSection("call", "tool_call", ParamsText("kv", <<Pair("command", "dq", "ls -la")>>))
Unparseable == ActionSection("other", "", NoParams)

LoopSections ==
    {Thought(c) : c \in {"short", "long"}}
      \cup {ReadCall, ShellCall, Unparseable}
      \cup {Observation("text"), FinalAnswerSection("answer")}

RECURSIVE SeqsUpTo(_, _)
SeqsUpTo(S, n) ==
    IF n = 0 THEN {<<>>}
    ELSE LET shorter == SeqsUpTo(S, n - 1)
         IN  shorter \cup {Append(t, s) : t \in {u \in shorter : Len(u) = n - 1}, s \in S}

\* the response texts the backend may produce: labelled sections, or prose
\* without any label; <<>> is the empty text
ResponseTexts == SeqsUpTo(LoopSections, MaxSections) \cup {<<Prose>>}

\* ------------------------------------------------------------------------
\* AIProvider: the action sub-parser
\* ------------------------------------------------------------------------
\* a parameters object: a function from its keys to their values
EmptyObject == [k \in {} |-> Undefined]

setKey(obj, k, v) == [x \in DOMAIN obj \cup {k} |-> IF x = k THEN v ELSE obj[x]]

\* the object built by assigning the entries in order: a later entry of the
\* same key replaces the earlier one
RECURSIVE fromEntries(_, _)
fromEntries(entries, obj) ==
    IF entries = <<>> THEN obj
    ELSE fromEntries(Tail(entries), setKey(obj, Head(entries).key, Head(entries).value))

\* Number(value) for the value texts of the model: the canonical text of
\* the number, "NaN" when the text is no number
Number(v) ==
    CASE v = "5000" -> "5000"
      [] v = "1e3" -> "1000"
      [] v = "" -> "0"
      [] OTHER -> "NaN"

\* convertParameterValue; an undefined argument is returned as it is
convertParameterValue(value) ==
    IF value.t # "string" THEN value
    ELSE CASE value.v = "true" -> TV("boolean", "true")
           [] value.v = "false" -> TV("boolean", "false")
           [] value.v = "null" -> TV("null", "null")
           [] value.v = "undefined" -> Undefined
           [] OTHER -> IF Number(value.v) # "NaN" THEN TV("number", Number(value.v))
                       ELSE value

\* match[2] || match[3] || match[4] of keyValueRegex: an empty quoted value
\* is falsy and no other group has matched
matchValue(pair) ==
    IF pair.quote \in {"dq", "sq"} /\ pair.raw = "" THEN Undefined ELSE Str(pair.raw)

\* JSON.stringify of a parameters object: the keys in order, strings quoted,
\* keys with an undefined value left out
KeyOrder == <<"command", "content", "file_path", "timeout">>

JSONstringify(obj) ==
    LET keys == SelectSeq(KeyOrder, LAMBDA k : k \in DOMAIN obj /\ obj[k].t # "undefined")
    IN  ParamsText("json",
          [i \in 1..Len(keys) |->
             Pair(keys[i], IF obj[keys[i]].t = "string" THEN "dq" ELSE "none",
                  obj[keys[i]].v)])

\* JSON.parse of such a text
JSONparse(pairs) ==
    fromEntries(
      [i \in 1..Len(pairs) |->
         [key |-> pairs[i].key,
          value |-> IF pairs[i].quote = "dq" THEN Str(pairs[i].raw)
                    ELSE IF pairs[i].raw \in {"true", "false"}
                    THEN TV("boolean", pairs[i].raw)
                    ELSE IF pairs[i].raw = "null" THEN TV("null", "null")
                    ELSE TV("number", pairs[i].raw)]],
      EmptyObject)

\* the parameter name guessed from the shape of a single value
positionalName(clean) ==
    IF clean \in {"./a.ts", "*.ts", "http://h/x"} THEN "file_path"
    ELSE IF clean \in {"src*"} THEN "pattern"
    ELSE IF clean \in {"https"} THEN "url"
    ELSE "query"

parseActionParameters(paramsStr) ==
    CASE paramsStr.form = "empty" -> EmptyObject
      [] paramsStr.form = "json" -> JSONparse(paramsStr.pairs)
      [] paramsStr.form = "kv" ->
           fromEntries(
             [i \in 1..Len(paramsStr.pairs) |->
                [key |-> paramsStr.pairs[i].key,
                 value |-> convertParameterValue(matchValue(paramsStr.pairs[i]))]],
             EmptyObject)
      [] OTHER ->
           setKey(EmptyObject, positionalName(paramsStr.pairs[1].raw),
                  Str(paramsStr.pairs[1].raw))

\* whether a value is truthy
truthy(value) ==
    CASE value.t = "string" -> value.v # ""
      [] value.t = "number" -> value.v # "0"
      [] value.t = "boolean" -> value.v = "true"
      [] OTHER -> FALSE

\* the key: value lines of the line-oriented form: quotes stripped, no
\* coercion
parseLines(pairs) ==
    fromEntries([i \in 1..Len(pairs) |-> [key |-> pairs[i].key, value |-> Str(pairs[i].raw)]],
                EmptyObject)

\* parseActionString: <<>> for null.  In the tool_call form a command that
\* is no string has no split method: the fault is caught and null returned
parseActionString(sec) ==
    IF sec.content = "call" /\ sec.name = "tool_call"
    THEN LET parameters == parseActionParameters(sec.args)
         IN  IF "command" \in DOMAIN parameters /\ truthy(parameters["command"])
                  /\ parameters["command"].t = "string"
             THEN <<[tool |-> "shell",
                     parameters |-> setKey(EmptyObject, "command", parameters["command"])]>>
             ELSE <<>>
    ELSE IF sec.content = "call"
    THEN <<[tool |-> sec.name, parameters |-> parseActionParameters(sec.args)]>>
    ELSE IF sec.content = "lines"
    THEN <<[tool |-> sec.name, parameters |-> parseLines(sec.args.pairs)]>>
    ELSE <<>>

\* the rendering of an action by the loop: tool(JSON of the parameters)
renderAction(action) ==
    ActionSection("call", action.tool, JSONstringify(action.parameters))

\* ------------------------------------------------------------------------
\* AIProvider: the section parser
\* ------------------------------------------------------------------------
NoStep == [thought |-> "", action |-> <<>>, observation |-> "", finish |-> FALSE]

\* isLikelyFinalAnswer with the length threshold included
isLikelyFinalAnswerAtLimit(thought) ==
    includesIndicator(thought) \/ length(thought) >= 100

isLikelyFinalAnswer(thought) == includesIndicator(thought) \/ length(thought) > 100

\* the lazy match of /Final Answer:\s*(.+?)(?=...)/: the first such section
RECURSIVE finalAnswerMatch(_)
finalAnswerMatch(content) ==
    IF content = <<>> THEN ""
    ELSE IF Head(content).type = "Final Answer" THEN Head(content).content
    ELSE finalAnswerMatch(Tail(content))

\* reactMatches that leaves the Observation label out of the pattern
reactMatchesNoObservation(content) ==
    SelectSeq(content, LAMBDA s : s.type \in {"Thought", "Action"})

\* the matches of reactPattern, in order of occurrence
reactMatches(content) ==
    SelectSeq(content, LAMBDA s : s.type \in {"Thought", "Action", "Observation"})

\* hasThought that holds for every step
hasThoughtAlways(step) == TRUE

\* the test currentStep.thought: set and not the empty string
hasThought(step) == step.thought # ""

\* the folding of the matches into steps; cur is currentStep
RECURSIVE foldSteps(_, _, _)
foldSteps(matches, cur, steps) ==
    IF matches = <<>>
    THEN IF hasThought(cur) THEN Append(steps, cur) ELSE steps
    ELSE LET item == Head(matches)
             rest == Tail(matches)
         IN  CASE item.type = "Thought" ->
                    IF hasThought(cur) \/ cur.action # <<>>
                    THEN foldSteps(rest, [NoStep EXCEPT !.thought = item.content],
                                   IF hasThought(cur) THEN Append(steps, cur) ELSE steps)
                    ELSE foldSteps(rest, [cur EXCEPT !.thought = item.content], steps)
                [] item.type = "Action" ->
                    IF hasThought(cur) /\ parseActionString(item) # <<>>
                    THEN foldSteps(rest, [cur EXCEPT !.action = parseActionString(item)],
                                   steps)
                    ELSE foldSteps(rest, cur, steps)
                [] OTHER ->
                    IF hasThought(cur)
                    THEN foldSteps(rest, NoStep,
                                   Append(steps, [cur EXCEPT !.observation = item.content]))
                    ELSE foldSteps(rest, cur, steps)

Last(s) == s[Len(s)]

\* parseReActResponse whose requiresMoreActions does not look at finalAnswer
parseReActResponseIgnoringAnswer(content) ==
    LET explicit == finalAnswerMatch(content)
        steps == foldSteps(reactMatches(content), NoStep, <<>>)
        requiresMoreActions ==
            steps = <<>> \/ (Last(steps).action # <<>> /\ Last(steps).observation = "")
        promote ==
            explicit = "" /\ steps # <<>> /\ Last(steps).thought # ""
              /\ Last(steps).action = <<>> /\ isLikelyFinalAnswer(Last(steps).thought)
    IN  [steps |-> IF promote THEN [steps EXCEPT ![Len(steps)].finish = TRUE] ELSE steps,
         finalAnswer |-> IF promote THEN Last(steps).thought ELSE explicit,
         requiresMoreActions |-> requiresMoreActions]

parseReActResponse(content) ==
    LET explicit == finalAnswerMatch(content)
        steps == foldSteps(reactMatches(content), NoStep, <<>>)
        requiresMoreActions ==
            explicit = "" /\
              (steps = <<>> \/ (Last(steps).action # <<>> /\ Last(steps).observation = ""))
        promote ==
            explicit = "" /\ steps # <<>> /\ Last(steps).thought # ""
              /\ Last(steps).action = <<>> /\ isLikelyFinalAnswer(Last(steps).thought)
    IN  [steps |-> IF promote THEN [steps EXCEPT ![Len(steps)].finish = TRUE] ELSE steps,
         finalAnswer |-> IF promote THEN Last(steps).thought ELSE explicit,
         requiresMoreActions |-> requiresMoreActions]

\* ------------------------------------------------------------------------
\* ToolRegistry
\* ------------------------------------------------------------------------
\* What a tool does when called; a fault is an Error object ("throws") or
\* another thrown value ("throwsValue").  A successful result carries data
\* of one of the shapes the loop distinguishes, or no data.
ValidateOutcomes == {"true", "false", "throws", "throwsValue"}
SuccessData == {"string", "content", "stdout", "object", "none"}
ExecuteOutcomes == SuccessData \cup {"failure", "throws", "throwsValue"}
ToolBehaviours == [validate : ValidateOutcomes, execute : ExecuteOutcomes]

\* the registry after the constructor: initializeTools
initializeTools == [n \in DefaultTools |-> [name |-> n, hasValidate |-> TRUE]]

hasTool(registry, name) == name \in DOMAIN registry

\* How a call of executeTool ends.  threw tells that a fault left
\* executeTool, and thrown is its message; otherwise success / data / error
\* are the ToolResult returned.  validated and executed tell what the tool's
\* validate and execute did in this call, "" when they were not invoked.
ToolOutcome(threw, thrown, success, data, error, validated, executed) ==
    [threw |-> threw, thrown |-> thrown, success |-> success, data |-> data,
     error |-> error, validated |-> validated, executed |-> executed]

Faults == {"throws", "throwsValue"}

\* error instanceof Error ? error.message : 'Unknown error'
errorMessage(fault, message) == IF fault = "throws" THEN message ELSE "Unknown error"

\* getTool: "" when the tool is registered, else the message of the fault
getTool(registry, name) == IF hasTool(registry, name) THEN "" ELSE "Tool not found"

\* tryExecute with the result of validate ignored
tryExecuteIgnoringValidate(tool, behaviour) ==
    LET validated == IF tool.hasValidate THEN behaviour.validate ELSE ""
    IN  IF validated \in Faults
        THEN ToolOutcome(FALSE, "", FALSE, "", errorMessage(validated, "validate fault"),
                         validated, "")
        ELSE IF behaviour.execute \in Faults
        THEN ToolOutcome(FALSE, "", FALSE, "",
                         errorMessage(behaviour.execute, "execute fault"),
                         validated, behaviour.execute)
        ELSE IF behaviour.execute = "failure"
        THEN ToolOutcome(FALSE, "", FALSE, "", "tool error", validated, behaviour.execute)
        ELSE ToolOutcome(FALSE, "", TRUE, behaviour.execute, "", validated,
                         behaviour.execute)

\* tryExecute with validate called in front of the try block
tryExecuteValidateOutside(tool, behaviour) ==
    LET validated == IF tool.hasValidate THEN behaviour.validate ELSE ""
    IN  IF validated = "false"
        THEN ToolOutcome(FALSE, "", FALSE, "", "Invalid parameters", validated, "")
        ELSE IF validated \in Faults
        THEN ToolOutcome(TRUE, "validate fault", FALSE, "", "", validated, "")
        ELSE IF behaviour.execute \in Faults
        THEN ToolOutcome(FALSE, "", FALSE, "",
                         errorMessage(behaviour.execute, "execute fault"),
                         validated, behaviour.execute)
        ELSE IF behaviour.execute = "failure"
        THEN ToolOutcome(FALSE, "", FALSE, "", "tool error", validated, behaviour.execute)
        ELSE ToolOutcome(FALSE, "", TRUE, behaviour.execute, "", validated,
                         behaviour.execute)

\* the try block of executeTool and its catch, for a registered tool
tryExecute(tool, behaviour) ==
    LET validated == IF tool.hasValidate THEN behaviour.validate ELSE ""
    IN  IF validated = "false"
        THEN ToolOutcome(FALSE, "", FALSE, "", "Invalid parameters", validated, "")
        ELSE IF validated \in Faults
        THEN ToolOutcome(FALSE, "", FALSE, "", errorMessage(validated, "validate fault"),
                         validated, "")
        ELSE IF behaviour.execute \in Faults
        THEN ToolOutcome(FALSE, "", FALSE, "",
                         errorMessage(behaviour.execute, "execute fault"),
                         validated, behaviour.execute)
        ELSE IF behaviour.execute = "failure"
        THEN ToolOutcome(FALSE, "", FALSE, "", "tool error", validated, behaviour.execute)
        ELSE ToolOutcome(FALSE, "", TRUE, behaviour.execute, "", validated,
                         behaviour.execute)

\* executeTool: the lookup is made before the try block is entered
executeTool(registry, name, behaviour) ==
    IF getTool(registry, name) # ""
    THEN ToolOutcome(TRUE, getTool(registry, name), FALSE, "", "", "", "")
    ELSE tryExecute(registry[name], behaviour)

NoOutcome == ToolOutcome(FALSE, "", FALSE, "", "", "", "")

\* ------------------------------------------------------------------------
\* ChatInterface: the mode selector
\* ------------------------------------------------------------------------
\* A user message is its text, the cache key of the text (lower-cased and
\* trimmed), whether parseToolCalls finds a call of a registered tool in it,
\* and what the patterns of shouldUseReActMode find in the text: explicit
\* tool-call syntax, a keyword of reactKeywords (verb), of fileCodeKeywords
\* (noun), of complexTaskKeywords (phrase), a question mark, the number of
\* pieces split(' ') gives, and a match of one of simplePatterns.
UserMessage(text, key, direct, explicit, verb, noun, phrase, question, words, simple) ==
    [text |-> text, key |-> key, direct |-> direct, explicit |-> explicit,
     verb |-> verb, noun |-> noun, phrase |-> phrase, question |-> question,
     words |-> words, simple |-> simple]

NoMessage == UserMessage("", "", FALSE, FALSE, FALSE, FALSE, FALSE, FALSE, 1, FALSE)

\* the messages sendMessage is called with
Messages ==
    {UserMessage("find all TypeScript files in the project",
                 "find all typescript files in the project",
                 FALSE, FALSE, TRUE, TRUE, FALSE, FALSE, 7, FALSE),
     UserMessage("hello", "hello", FALSE, FALSE, FALSE, FALSE, FALSE, FALSE, 1, TRUE),
     UserMessage("Read(file_path=./a.ts)", "read(file_path=./a.ts)",
                 TRUE, TRUE, FALSE, TRUE, FALSE, FALSE, 1, FALSE)}

\* a text followed by one more space: trim() drops the space, the patterns
\* find what they found, split(' ') gives one more piece
Padded(m) == [m EXCEPT !.text = m.text \o " ", !.words = m.words + 1]

\* message.length > 50 && (message.includes('?') || message.split(' ').length > 10)
isComplexMessage(m) == Len(m.text) > 50 /\ (m.question \/ m.words > 10)

\* classify without the conjunction of verb and noun
classifyNoVerbNoun(m) ==
    IF m.explicit THEN TRUE
    ELSE IF m.simple THEN FALSE
    ELSE (m.verb /\ m.phrase) \/ (m.noun /\ isComplexMessage(m)) \/ m.phrase

\* the decision computed from the text when the cache has no entry
classify(m) ==
    IF m.explicit THEN TRUE
    ELSE IF m.simple THEN FALSE
    ELSE (m.verb /\ m.noun) \/ (m.verb /\ m.phrase)
            \/ (m.noun /\ isComplexMessage(m)) \/ m.phrase

EmptyCache == [k \in {} |-> FALSE]

\* SessionManager.sessions without a session
NoSessions == [id \in {} |-> <<>>]

\* shouldUseReActMode: the decision returned
shouldUseReActMode(cache, m) ==
    IF m.key \in DOMAIN cache THEN cache[m.key] ELSE classify(m)

\* shouldUseReActMode: the cache it leaves
cacheAfter(cache, m) ==
    IF m.key \in DOMAIN cache THEN cache
    ELSE LET kept == IF Cardinality(DOMAIN cache) > MaxCacheSize
                     THEN EmptyCache ELSE cache
         IN  [k \in DOMAIN kept \cup {m.key} |->
                 IF k = m.key THEN classify(m) ELSE kept[k]]

\* ------------------------------------------------------------------------
\* State
\* ------------------------------------------------------------------------
VARIABLES
    pc,                 \* where the sendMessage call in progress stands
    message,            \* the user message of that call
    backend,            \* the model backend: "ok", "flaky", "down", "unconfigured"
    tools,              \* ToolRegistry.tools
    session,            \* the message log of the current session
    reactModeCache,     \* ChatInterface.reactModeCache
    currentMessages,    \* the messages of currentMessages not yet sent to the backend
    stepCount,
    consecutiveErrors,
    reactResponse,      \* the parsed response; steps holds the steps still to process
    hasValidAction,
    observationText,    \* the observation rendered for the step last executed
    toolCall,           \* the tool name of the executeTool call last made
    toolResult,         \* how that call ended
    response,           \* the text sendMessage is about to print
    mainCalls,          \* model calls made in the main loop of this run
    summaryCalls,       \* forced-summary model calls made in this run
    reactEntries,       \* entries into generateReActResponse for this message
    alwaysActs,         \* every response of this run requested a parseable action
                        \* and held no Final Answer section
    droppedAction,      \* the response being processed has one step, whose Action
                        \* section could not be parsed, and no final answer
    parserContent,      \* the text handed to parseReActResponse (its content)
    actionStr,          \* the text handed to parseActionString
    actionResult,       \* what parseActionString returned for it
    action,             \* the action rendered into actionStr
    shouldUseReAct,     \* what the last call of shouldUseReActMode returned
    sessions,           \* SessionManager.sessions: the message log per session id
    currentSessionId,   \* SessionManager.currentSessionId, "" for null
    responseCache,      \* AIProviderFactory.responseCache
    clock,              \* Date.now()
    pending,            \* the calls of sendMessageWithCache awaiting the backend
    returned            \* what the last call of sendMessageWithCache returned

vars == <<pc, message, backend, tools, session, reactModeCache, currentMessages,
          stepCount, consecutiveErrors, reactResponse, hasValidAction,
          observationText, toolCall, toolResult, response, mainCalls,
          summaryCalls, reactEntries, alwaysActs, droppedAction, parserContent,
          actionStr, actionResult, action, shouldUseReAct, sessions,
          currentSessionId, responseCache, clock, pending, returned>>

loopVars == <<currentMessages, stepCount, consecutiveErrors, reactResponse,
              hasValidAction, observationText, toolCall, toolResult, mainCalls,
              summaryCalls, alwaysActs, droppedAction>>

parserVars == <<parserContent, actionStr, actionResult, action>>

managerVars == <<sessions, currentSessionId>>

cacheVars == <<responseCache, clock, pending, returned>>

Msg(role, content) == [role |-> role, content |-> content]

\* a text returned to sendMessage: what it is, whether it is the empty
\* string, and whether it still carries a Final Answer label
Text(kind, empty, labelled) == [kind |-> kind, empty |-> empty, labelled |-> labelled]
NoResponse == Text("", TRUE, FALSE)
NoParse == [steps |-> <<>>, finalAnswer |-> "", requiresMoreActions |-> FALSE]

Backends == {"ok", "flaky", "down", "unconfigured"}

\* response.content returned as it is
rawResponse(content) ==
    Text("raw response", content = <<>>,
         \E i \in 1..Len(content) : content[i].type = "Final Answer")

\* whether a text requests an action that parseActionString can parse
requestsAction(content) ==
    \E i \in 1..Len(content) :
        content[i].type = "Action" /\ parseActionString(content[i]) # <<>>

\* what the loop uses of a response of the backend: the text as returned
\* raw, its parse, and whether it requests a parseable action
\* whether a text has one step only, whose Action section could not be
\* parsed, and no final answer, explicit or promoted
dropsAction(content) ==
    LET parsed == parseReActResponse(content)
    IN  /\ parsed.finalAnswer = ""
        /\ Len(parsed.steps) = 1
        /\ parsed.steps[1].action = <<>> /\ parsed.steps[1].observation = ""
        /\ \E i \in 1..Len(content) :
              content[i].type = "Action" /\ parseActionString(content[i]) = <<>>

ModelResponses ==
    {[content |-> rawResponse(t), parsed |-> parseReActResponse(t),
      acts |-> requestsAction(t), dropped |-> dropsAction(t)] : t \in ResponseTexts}

Min(a, b) == IF a < b THEN a ELSE b

\* ------------------------------------------------------------------------
\* AIProviderFactory: the response cache
\* ------------------------------------------------------------------------
\* CACHE_MAX_SIZE and CACHE_TTL, the latter in ticks of the clock
ResponseCacheMaxSize == 2
CacheTTL == 2
\* the length of a cache key, in units of the key text: 64 characters of
\* base64 are 48 bytes of text
KeyLength == 3
\* the part of a content that enters the key text: substring(0, 100)
ContentPrefix == 4
\* the number of messages above which a conversation is not cached
MaxCacheable == 2
\* the last tick of the clock, and the calls that may wait for the backend
MaxClock == 3
MaxPending == 2

Take(s, n) == SubSeq(s, 1, Min(Len(s), n))

\* A conversation handed to a provider: messages with a role and a content,
\* the content being a sequence of pieces of text.
Conv(role, content) == <<Msg(role, content)>>

Conversations ==
    {Conv("user", <<"a", "b">>),
     Conv("user", <<"a", "b", "c">>),
     Conv("user", <<"b">>),
     Conv("user", <<"a">>) \o Conv("assistant", <<"b">>),
     Conv("user", <<"a">>) \o Conv("assistant", <<"c">>),
     Conv("user", <<"a">>) \o Conv("tool", <<"b">>),
     Conv("user", <<"what", "now">>),
     Conv("user", <<"a">>) \o Conv("assistant", <<"b">>) \o Conv("user", <<"c">>)}

\* the text the key is made of: `${role}:${content.substring(0, 100)}` for
\* each message, joined by "|"
RECURSIVE keyText(_)
keyText(messages) ==
    IF messages = <<>> THEN <<>>
    ELSE LET m == Head(messages)
             own == <<m.role \o ":">> \o Take(m.content, ContentPrefix)
         IN  IF Tail(messages) = <<>> THEN own
             ELSE own \o <<"|">> \o keyText(Tail(messages))

\* generateCacheKey: base64 is one-to-one and its first 64 characters encode
\* the first 48 bytes of the text, so the key is written as the part of the
\* text it encodes
generateCacheKey(messages) == Take(keyText(messages), KeyLength)

\* shouldUseCache
shouldUseCache(messages) ==
    LET hasToolResults == \E i \in 1..Len(messages) : messages[i].role = "tool"
        isTooLong == Len(messages) > MaxCacheable
        hasTimeSensitive ==
            \E i \in 1..Len(messages) :
                \E j \in 1..Len(messages[i].content) :
                    messages[i].content[j] \in {"current", "now", "today"}
    IN  ~hasToolResults /\ ~isTooLong /\ ~hasTimeSensitive

\* The Map responseCache is the sequence of its entries in insertion order,
\* each with its key.
mapHas(cache, key) == \E i \in 1..Len(cache) : cache[i].key = key

mapGet(cache, key) == cache[CHOOSE i \in 1..Len(cache) : cache[i].key = key]

RECURSIVE mapDelete(_, _)
mapDelete(cache, key) ==
    IF cache = <<>> THEN <<>>
    ELSE IF Head(cache).key = key THEN mapDelete(Tail(cache), key)
    ELSE <<Head(cache)>> \o mapDelete(Tail(cache), key)

\* Map.set: an entry of a key already present is replaced where it stands
mapSet(cache, entry) ==
    IF mapHas(cache, entry.key)
    THEN [i \in 1..Len(cache) |->
             IF cache[i].key = entry.key THEN entry ELSE cache[i]]
    ELSE Append(cache, entry)

RECURSIVE withoutExpired(_, _)
withoutExpired(cache, t) ==
    IF cache = <<>> THEN <<>>
    ELSE IF t - Head(cache).timestamp > CacheTTL THEN withoutExpired(Tail(cache), t)
    ELSE <<Head(cache)>> \o withoutExpired(Tail(cache), t)

\* getCachedResponse at time t: whether a response is returned, and the
\* cache afterwards (an entry found expired is deleted)
getCachedResponse(cache, messages, t) ==
    LET cacheKey == generateCacheKey(messages)
    IN  IF mapHas(cache, cacheKey)
        THEN IF t - mapGet(cache, cacheKey).timestamp < CacheTTL
             THEN [hit |-> TRUE, response |-> mapGet(cache, cacheKey).response,
                   cache |-> cache]
             ELSE [hit |-> FALSE, response |-> <<>>,
                   cache |-> mapDelete(cache, cacheKey)]
        ELSE [hit |-> FALSE, response |-> <<>>, cache |-> cache]

\* setCachedResponse at time t: a full cache loses its expired entries and,
\* if still full, its oldest entry; the response stored is a deep copy
setCachedResponse(cache, messages, resp, t) ==
    LET purged == IF Len(cache) >= ResponseCacheMaxSize
                  THEN withoutExpired(cache, t) ELSE cache
        room == IF Len(cache) >= ResponseCacheMaxSize
                     /\ Len(purged) >= ResponseCacheMaxSize
                THEN Tail(purged) ELSE purged
    IN  mapSet(room, [key |-> generateCacheKey(messages), response |-> resp,
                      timestamp |-> t])

\* the response of the backend to a conversation, written as the
\* conversation it answers
answerTo(messages) == [answers |-> messages]

NoReturn == [messages |-> <<>>, response |-> <<>>, cached |-> FALSE]

\* the state after construction, but for the position and the parsers
InitState ==
    /\ message = NoMessage
    /\ backend \in Backends
    /\ tools = initializeTools
    /\ session = <<>>
    /\ reactModeCache = EmptyCache
    /\ currentMessages = <<>>
    /\ stepCount = 0
    /\ consecutiveErrors = 0
    /\ reactResponse = NoParse
    /\ hasValidAction = FALSE
    /\ observationText = ""
    /\ toolCall = ""
    /\ toolResult = NoOutcome
    /\ response = NoResponse
    /\ mainCalls = 0
    /\ summaryCalls = 0
    /\ reactEntries = 0
    /\ alwaysActs = TRUE
    /\ droppedAction = FALSE

Init ==
    /\ InitState
    /\ pc = "idle"
    /\ parserContent = <<>>
    /\ actionStr = <<>>
    /\ actionResult = <<>>
    /\ action = <<>>
    /\ shouldUseReAct = FALSE
    /\ sessions = NoSessions
    /\ currentSessionId = ""
    /\ responseCache = <<>>
    /\ clock = 0
    /\ pending = {}
    /\ returned = NoReturn

\* ------------------------------------------------------------------------
\* Faults of the model backend
\* ------------------------------------------------------------------------
\* AIProviderFactory.getDefaultProvider: the message of the fault it raises
\* when no credential is configured, "" when it returns a provider
getDefaultProvider(b) == IF b = "unconfigured" THEN "No AI provider is configured" ELSE ""

\* error.message.includes('not configured')
includesNotConfigured(faultMessage) == faultMessage = "API key not configured"

\* generateResponse (catch): the text returned for a fault
fallbackResponse(faultMessage) ==
    IF includesNotConfigured(faultMessage)
    THEN Text("configuration guidance", FALSE, FALSE)
    ELSE Text("connection trouble", FALSE, FALSE)

\* whether a call of aiProvider.sendMessage may fault / may answer
mayFault(b) == b \in {"flaky", "down"}
mayAnswer(b) == b \in {"ok", "flaky"}

ResetLoop ==
    /\ currentMessages' = <<>>
    /\ stepCount' = 0
    /\ consecutiveErrors' = 0
    /\ reactResponse' = NoParse
    /\ hasValidAction' = FALSE
    /\ observationText' = ""
    /\ toolCall' = ""
    /\ toolResult' = NoOutcome
    /\ mainCalls' = 0
    /\ summaryCalls' = 0
    /\ alwaysActs' = TRUE
    /\ droppedAction' = FALSE

\* ------------------------------------------------------------------------
\* ChatInterface.sendMessage
\* ------------------------------------------------------------------------
\* sendMessage up to the first await: the user message is logged and the
\* message is parsed for direct tool calls
SendMessage(m) ==
    /\ UNCHANGED <<parserVars, shouldUseReAct, managerVars, cacheVars>>
    /\ pc = "idle"
    /\ Len(session) < MaxHistory
    /\ message' = m
    /\ session' = Append(session, Msg("user", m.text))
    /\ pc' = IF m.direct THEN "executeToolCalls" ELSE "generateResponse"
    /\ reactEntries' = 0
    /\ UNCHANGED <<backend, tools, reactModeCache, response, loopVars>>

\* executeToolCalls: the direct call of a registered tool; a fault of
\* executeTool is caught and reported in the output
ExecuteToolCalls(behaviour) ==
    /\ UNCHANGED <<parserVars, shouldUseReAct, managerVars, cacheVars>>
    /\ pc = "executeToolCalls"
    /\ toolCall' = "Read"
    /\ toolResult' = executeTool(tools, "Read", behaviour)
    /\ response' = Text("tool output", FALSE, FALSE)
    /\ pc' = "respond"
    /\ UNCHANGED <<message, backend, tools, session, reactModeCache, currentMessages,
                   stepCount, consecutiveErrors, reactResponse, hasValidAction,
                   observationText, mainCalls, summaryCalls, reactEntries, alwaysActs,
                   droppedAction>>

\* sendMessage after the response is there: it is logged and printed
Respond ==
    /\ UNCHANGED <<parserVars, shouldUseReAct, managerVars, cacheVars>>
    /\ pc = "respond"
    /\ session' = Append(session, Msg("assistant", response.kind))
    /\ pc' = "idle"
    /\ message' = NoMessage
    /\ response' = NoResponse
    /\ reactEntries' = 0
    /\ ResetLoop
    /\ UNCHANGED <<backend, tools, reactModeCache>>

\* ------------------------------------------------------------------------
\* ChatInterface.generateResponse
\* ------------------------------------------------------------------------
\* generateResponse up to its first await: the mode decision, then either
\* the entry into generateReActResponse (provider lookup, initial
\* conversation, counters) or the provider lookup of the single-shot path
GenerateResponse ==
    /\ UNCHANGED <<parserVars, shouldUseReAct, managerVars, cacheVars>>
    /\ pc = "generateResponse"
    /\ reactModeCache' = cacheAfter(reactModeCache, message)
    /\ IF shouldUseReActMode(reactModeCache, message)
       THEN /\ reactEntries' = Min(reactEntries + 1, MaxEntries)
            /\ IF getDefaultProvider(backend) # ""
               THEN /\ response' = fallbackResponse(getDefaultProvider(backend))
                    /\ pc' = "respond"
                    /\ UNCHANGED loopVars
               ELSE /\ currentMessages' =
                          <<Msg("system", "ReAct system prompt")>> \o session
                             \o <<Msg("user", message.text)>>
                    /\ stepCount' = 0
                    /\ consecutiveErrors' = 0
                    /\ reactResponse' = NoParse
                    /\ hasValidAction' = FALSE
                    /\ observationText' = ""
                    /\ toolCall' = ""
                    /\ toolResult' = NoOutcome
                    /\ mainCalls' = 0
                    /\ summaryCalls' = 0
                    /\ alwaysActs' = TRUE
                    /\ droppedAction' = FALSE
                    /\ pc' = "loop"
                    /\ UNCHANGED response
       ELSE /\ IF getDefaultProvider(backend) # ""
               THEN /\ response' = fallbackResponse(getDefaultProvider(backend))
                    /\ pc' = "respond"
                    /\ UNCHANGED currentMessages
               ELSE /\ currentMessages' =
                          <<Msg("system", "system prompt")>> \o session
                             \o <<Msg("user", message.text)>>
                    /\ pc' = "singleShot"
                    /\ UNCHANGED response
            /\ UNCHANGED <<reactEntries, stepCount, consecutiveErrors, reactResponse,
                           hasValidAction, observationText, toolCall, toolResult, mainCalls,
                           summaryCalls, alwaysActs,
                   droppedAction>>
    /\ UNCHANGED <<message, backend, tools, session>>

\* the single-shot path, first model call: a fault gives the fallback text;
\* an answer without tool calls is logged together with the user message and
\* returned; an answer with tool calls is logged and the tools are run
SingleShot ==
    /\ UNCHANGED <<parserVars, shouldUseReAct, managerVars, cacheVars>>
    /\ pc = "singleShot"
    /\ \/ /\ mayFault(backend)
          /\ response' = fallbackResponse("API request failed")
          /\ pc' = "respond"
          /\ UNCHANGED session
       \/ /\ mayAnswer(backend)
          /\ response' = Text("answer", FALSE, FALSE)
          /\ session' = session \o <<Msg("user", message.text), Msg("assistant", "answer")>>
          /\ pc' = "respond"
       \/ /\ mayAnswer(backend)
          /\ session' = Append(session, Msg("assistant", "tool calls"))
          /\ pc' = "executeAIToolCalls"
          /\ UNCHANGED response
    /\ currentMessages' = <<>>
    /\ UNCHANGED <<message, backend, tools, reactModeCache, stepCount,
                   consecutiveErrors, reactResponse, hasValidAction, observationText,
                   toolCall, toolResult, mainCalls, summaryCalls, reactEntries,
                   alwaysActs,
                   droppedAction>>

\* executeAIToolCalls for the one tool call of the answer, and the logging
\* of its result; a fault of executeTool is caught and becomes the result
ExecuteAIToolCalls(name, behaviour) ==
    /\ UNCHANGED <<parserVars, shouldUseReAct, managerVars, cacheVars>>
    /\ pc = "executeAIToolCalls"
    /\ toolCall' = name
    /\ toolResult' = executeTool(tools, name, behaviour)
    /\ session' = Append(session, Msg("tool", "tool result"))
    /\ pc' = "finalResponse"
    /\ UNCHANGED <<message, backend, tools, reactModeCache, currentMessages, stepCount,
                   consecutiveErrors, reactResponse, hasValidAction, observationText,
                   response, mainCalls, summaryCalls, reactEntries, alwaysActs,
                   droppedAction>>

\* the second model call of the single-shot path, with the tool results
FinalResponse ==
    /\ UNCHANGED <<parserVars, shouldUseReAct, managerVars, cacheVars>>
    /\ pc = "finalResponse"
    /\ \/ /\ mayFault(backend)
          /\ response' = fallbackResponse("API request failed")
          /\ UNCHANGED session
       \/ /\ mayAnswer(backend)
          /\ response' = Text("answer", FALSE, FALSE)
          /\ session' = Append(session, Msg("assistant", "answer"))
    /\ pc' = "respond"
    /\ UNCHANGED <<message, backend, tools, reactModeCache, currentMessages, stepCount,
                   consecutiveErrors, reactResponse, hasValidAction, observationText,
                   toolCall, toolResult, mainCalls, summaryCalls, reactEntries,
                   alwaysActs,
                   droppedAction>>

\* ------------------------------------------------------------------------
\* ChatInterface.generateReActResponse
\* ------------------------------------------------------------------------
recoveryPrompt == Msg("user", "recovery prompt")
continuePrompt == Msg("user", "continue prompt")
formatGuidance == Msg("user", "format guidance")
summaryPrompt == Msg("user", "summary prompt")

\* the rendering of a successful result; "" stands for the undefined that
\* JSON.stringify gives for a result without data
renderObservation(data) ==
    CASE data = "string" -> "data"
      [] data = "content" -> "data.content"
      [] data = "stdout" -> "data.stdout"
      [] data = "object" -> "JSON of data"
      [] OTHER -> ""

\* stepOutcome with a catch that does not count the fault
stepOutcomeUncounted(errors, r) ==
    IF r.threw
    THEN [errors |-> errors, observation |-> "Tool execution error: " \o r.thrown]
    ELSE IF r.success
    THEN IF renderObservation(r.data) = ""
         THEN [errors |-> 0 + 1,
               observation |-> "Tool execution error: Cannot read properties of undefined"]
         ELSE [errors |-> 0, observation |-> renderObservation(r.data)]
    ELSE [errors |-> errors + 1, observation |-> "Error: " \o r.error]

\* The body of the try block around executeTool together with its catch:
\* what the step leaves in consecutiveErrors and observationText.
\*   - executeTool faults: the catch counts an error
\*   - success: the counter is reset; the observation is rendered, and taking
\*     the length of an undefined observation faults, which the same catch
\*     counts as an error
\*   - failure result: an error is counted
stepOutcome(errors, r) ==
    IF r.threw
    THEN [errors |-> errors + 1, observation |-> "Tool execution error: " \o r.thrown]
    ELSE IF r.success
    THEN IF renderObservation(r.data) = ""
         THEN [errors |-> 0 + 1,
               observation |-> "Tool execution error: Cannot read properties of undefined"]
         ELSE [errors |-> 0, observation |-> renderObservation(r.data)]
    ELSE [errors |-> errors + 1, observation |-> "Error: " \o r.error]

\* loopCondition admitting one step too many
loopConditionOffByOne(steps, errors) ==
    steps <= maxSteps /\ errors < maxConsecutiveErrors

\* the condition of the while loop
loopCondition(steps, errors) == steps < maxSteps /\ errors < maxConsecutiveErrors

\* the loop guard; on exit the summary prompt is appended
LoopGuard ==
    /\ UNCHANGED <<parserVars, shouldUseReAct, managerVars, cacheVars>>
    /\ pc = "loop"
    /\ IF loopCondition(stepCount, consecutiveErrors)
       THEN /\ pc' = "callModel"
            /\ UNCHANGED currentMessages
       ELSE /\ pc' = "summary"
            /\ currentMessages' = Append(currentMessages, summaryPrompt)
    /\ UNCHANGED <<message, backend, tools, session, reactModeCache, stepCount,
                   consecutiveErrors, reactResponse, hasValidAction, observationText,
                   toolCall, toolResult, response, mainCalls, summaryCalls,
                   reactEntries, alwaysActs,
                   droppedAction>>

\* a fault of the backend in generateReActResponse: the catch calls
\* generateResponse with the same message
BackendFault ==
    /\ UNCHANGED <<parserVars, shouldUseReAct, managerVars, cacheVars>>
    /\ pc \in {"callModel", "summary"}
    /\ mayFault(backend)
    /\ pc' = "generateResponse"
    /\ UNCHANGED <<message, backend, tools, session, reactModeCache, response,
                   reactEntries, loopVars>>

\* isFirstIteration that holds for no iteration
isFirstIterationNever(steps) == steps = 0

\* isFirstIteration that holds for every iteration
isFirstIterationAlways(steps) == steps >= 1

\* the test that tells the first iteration from the later ones
isFirstIteration(steps) == steps = 1

\* a model call of the main loop answers: the response is parsed; without
\* steps it is returned (first call) or format guidance is appended
ModelCall(r) ==
    /\ UNCHANGED <<parserVars, shouldUseReAct, managerVars, cacheVars>>
    /\ pc = "callModel"
    /\ mayAnswer(backend)
    /\ stepCount' = stepCount + 1
    /\ mainCalls' = mainCalls + 1
    /\ alwaysActs' = (alwaysActs /\ r.acts /\ ~r.content.labelled)
    /\ hasValidAction' = FALSE
    /\ droppedAction' = r.dropped
    /\ IF r.parsed.steps # <<>>
       THEN /\ reactResponse' = r.parsed
            /\ currentMessages' = <<>>
            /\ pc' = "steps"
            /\ UNCHANGED response
       ELSE IF isFirstIteration(stepCount')
       THEN /\ response' = r.content
            /\ currentMessages' = <<>>
            /\ pc' = "respond"
            /\ UNCHANGED reactResponse
       ELSE /\ currentMessages' = <<formatGuidance>>
            /\ pc' = "loop"
            /\ UNCHANGED <<response, reactResponse>>
    /\ UNCHANGED <<message, backend, tools, session, reactModeCache, consecutiveErrors,
                   observationText, toolCall, toolResult, summaryCalls, reactEntries>>

\* observationMessages without the assistant message
observationMessagesToolOnly(step) ==
    <<[role |-> "tool", content |-> "observationText", name |-> step.action[1].tool]>>

\* the two messages pushed to currentMessages for an executed action, in
\* the try block and in its catch alike: the assistant message rendering
\* the thought and the action of the step, and the tool message with the
\* observation text (observationText or errorText) under the name of the
\* tool.  The texts are written as tokens; action is the tool the rendered
\* action names.
observationMessages(step) ==
    <<[role |-> "assistant", content |-> "Thought and Action",
       action |-> step.action[1].tool],
      [role |-> "tool", content |-> "observationText", name |-> step.action[1].tool]>>

\* currentStep that takes the steps from the end of the list
currentStepFromEnd(steps) == Last(steps)

\* the step the for loop is at: the first of the steps not yet processed
currentStep(steps) == Head(steps)

\* stepHasAction that passes over a step the model closed with an
\* Observation of its own
stepHasActionOpen(step) == step.action # <<>> /\ step.observation = ""

\* the test made on a step before its tool is run: if (step.action)
stepHasAction(step) == step.action # <<>>

\* one pass of the for loop over the steps: the step's action, if any, is
\* dispatched and its observation appended to the conversation
ProcessStep(behaviour) ==
    /\ UNCHANGED <<parserVars, shouldUseReAct, managerVars, cacheVars>>
    /\ pc = "steps"
    /\ LET step == currentStep(reactResponse.steps)
           rest == Tail(reactResponse.steps)
       IN  /\ IF stepHasAction(step)
              THEN LET r == executeTool(tools, step.action[1].tool, behaviour)
                       o == stepOutcome(consecutiveErrors, r)
                   IN  /\ hasValidAction' = TRUE
                       /\ toolCall' = step.action[1].tool
                       /\ toolResult' = r
                       /\ consecutiveErrors' = o.errors
                       /\ observationText' = o.observation
                       /\ currentMessages' =
                            currentMessages \o observationMessages(step)
              ELSE /\ toolCall' = ""
                   /\ toolResult' = NoOutcome
                   /\ observationText' = ""
                   /\ UNCHANGED <<hasValidAction, consecutiveErrors, currentMessages>>
           /\ reactResponse' = [reactResponse EXCEPT !.steps = rest]
           /\ pc' = IF rest = <<>> THEN "check" ELSE "steps"
    /\ UNCHANGED <<message, backend, tools, session, reactModeCache, stepCount,
                   response, mainCalls, summaryCalls, reactEntries, alwaysActs,
                   droppedAction>>

\* isComplete that looks at the final answer only
isCompleteOnAnswerOnly(r) == r.finalAnswer # ""

\* the condition of the termination check
isComplete(r) == ~r.requiresMoreActions \/ r.finalAnswer # ""

\* the assistant message recorded for the final answer; reasoningChain
\* stands for the chain accumulated by the run
finalMessage(finalAnswer, steps) ==
    [role |-> "assistant", content |-> finalAnswer,
     reactData |-> [currentStep |-> steps, totalSteps |-> steps,
                    reasoningChain |-> "reasoningChain"]]

\* endOfIterationPrompts without the continuation prompt
endOfIterationPromptsRecoveryOnly(errors, valid) ==
    IF errors >= maxConsecutiveErrors THEN <<recoveryPrompt>> ELSE <<>>

\* endOfIterationPrompts with an if in place of the else if
endOfIterationPromptsNoElse(errors, valid) ==
    (IF errors >= maxConsecutiveErrors THEN <<recoveryPrompt>> ELSE <<>>)
        \o (IF valid THEN <<continuePrompt>> ELSE <<>>)

\* the user prompts pushed after the termination check: the recovery
\* prompt, else if an action was seen the continuation prompt
endOfIterationPrompts(errors, valid) ==
    IF errors >= maxConsecutiveErrors THEN <<recoveryPrompt>>
    ELSE IF valid THEN <<continuePrompt>>
    ELSE <<>>

\* errorsAfterPrompts without the reset
errorsAfterPromptsKept(errors) == errors

\* consecutiveErrors after the prompts: reset with the recovery prompt
errorsAfterPrompts(errors) == IF errors >= maxConsecutiveErrors THEN 0 ELSE errors

\* after the steps of a response: the termination check, then the recovery
\* or the continuation prompt
TerminationCheck ==
    /\ UNCHANGED <<parserVars, shouldUseReAct, managerVars, cacheVars>>
    /\ pc = "check"
    /\ IF isComplete(reactResponse)
       THEN /\ response' =
                 IF reactResponse.finalAnswer # ""
                 THEN Text("final answer", FALSE, FALSE)
                 ELSE Text("Task completed successfully.", FALSE, FALSE)
            /\ session' = Append(session, finalMessage(response'.kind, stepCount))
            /\ pc' = "respond"
            /\ UNCHANGED <<currentMessages, consecutiveErrors>>
       ELSE /\ pc' = "loop"
            /\ UNCHANGED <<response, session>>
            /\ currentMessages' =
                 currentMessages \o endOfIterationPrompts(consecutiveErrors, hasValidAction)
            /\ consecutiveErrors' = errorsAfterPrompts(consecutiveErrors)
    /\ toolCall' = ""
    /\ toolResult' = NoOutcome
    /\ observationText' = ""
    /\ droppedAction' = FALSE
    /\ UNCHANGED <<message, backend, tools, reactModeCache, stepCount, reactResponse,
                   hasValidAction, mainCalls, summaryCalls, reactEntries, alwaysActs>>

\* summaryResult that returns the raw text whatever the parse
summaryResultRaw(r) == r.content

\* what the run returns after the forced-summary call
summaryResult(r) ==
    IF r.parsed.finalAnswer # "" THEN Text("final answer", FALSE, FALSE) ELSE r.content

\* the forced-summary model call answers
ForcedSummary(r) ==
    /\ UNCHANGED <<parserVars, shouldUseReAct, managerVars, cacheVars>>
    /\ pc = "summary"
    /\ mayAnswer(backend)
    /\ summaryCalls' = summaryCalls + 1
    /\ alwaysActs' = (alwaysActs /\ r.acts /\ ~r.content.labelled)
    /\ droppedAction' = FALSE
    /\ currentMessages' = <<>>
    /\ response' = summaryResult(r)
    /\ pc' = "respond"
    /\ UNCHANGED <<message, backend, tools, session, reactModeCache, stepCount,
                   consecutiveErrors, reactResponse, hasValidAction, observationText,
                   toolCall, toolResult, mainCalls, reactEntries>>

\* ------------------------------------------------------------------------
\* Specification
\* ------------------------------------------------------------------------
Next ==
    \/ \E m \in Messages : SendMessage(m)
    \/ \E b \in ToolBehaviours : ExecuteToolCalls(b)
    \/ Respond
    \/ GenerateResponse
    \/ SingleShot
    \/ \E n \in DefaultTools \cup {"shell"}, b \in ToolBehaviours : ExecuteAIToolCalls(n, b)
    \/ FinalResponse
    \/ LoopGuard
    \/ BackendFault
    \/ \E r \in ModelResponses : ModelCall(r)
    \/ \E b \in ToolBehaviours : ProcessStep(b)
    \/ TerminationCheck
    \/ \E r \in ModelResponses : ForcedSummary(r)

Spec == Init /\ [][Next]_vars

\* the event loop resumes a pending continuation: whatever step is enabled
\* is eventually taken
FairSpec == Spec /\ WF_vars(Next)

\* ------------------------------------------------------------------------
\* The ToolRegistry on its own: tools are registered and called by name
\* ------------------------------------------------------------------------
\* tools a caller may register besides the default ones; a registration
\* under a name in use replaces the tool
RegisteredTools ==
    {[name |-> n, hasValidate |-> v] : n \in {"Read", "Plugin"}, v \in BOOLEAN}

ToolNames == DefaultTools \cup {"Plugin", "shell"}

InitRegistry ==
    /\ Init
    /\ backend = "ok"

registerTool(registry, tool) ==
    [n \in DOMAIN registry \cup {tool.name} |->
        IF n = tool.name THEN tool ELSE registry[n]]

RegisterTool(tool) ==
    /\ UNCHANGED <<parserVars, shouldUseReAct, managerVars, cacheVars>>
    /\ pc = "idle"
    /\ tools' = registerTool(tools, tool)
    /\ UNCHANGED <<pc, message, backend, session, reactModeCache, response,
                   reactEntries, loopVars>>

ExecuteTool(name, behaviour) ==
    /\ UNCHANGED <<parserVars, shouldUseReAct, managerVars, cacheVars>>
    /\ pc = "idle"
    /\ toolCall' = name
    /\ toolResult' = executeTool(tools, name, behaviour)
    /\ UNCHANGED <<pc, message, backend, tools, session, reactModeCache,
                   currentMessages, stepCount, consecutiveErrors, reactResponse,
                   hasValidAction, observationText, response, mainCalls,
                   summaryCalls, reactEntries, alwaysActs,
                   droppedAction>>

NextRegistry ==
    \/ \E t \in RegisteredTools : RegisterTool(t)
    \/ \E n \in ToolNames, b \in ToolBehaviours : ExecuteTool(n, b)

SpecRegistry == InitRegistry /\ [][NextRegistry]_vars

\* ------------------------------------------------------------------------
\* The mode selector on its own: shouldUseReActMode is called with one
\* message after the other
\* ------------------------------------------------------------------------
\* a question about files of exactly 50 characters
FilesQuestion ==
    UserMessage("which files did the team change in the last month?",
                "which files did the team change in the last month?",
                FALSE, FALSE, FALSE, TRUE, FALSE, TRUE, 10, FALSE)

SelectorMessages ==
    Messages \cup
    {UserMessage("analyze the test-react.md file", "analyze the test-react.md file",
                 FALSE, FALSE, TRUE, TRUE, FALSE, FALSE, 4, FALSE),
     UserMessage("help me understand the project structure",
                 "help me understand the project structure",
                 FALSE, FALSE, TRUE, TRUE, FALSE, FALSE, 6, FALSE),
     FilesQuestion,
     Padded(FilesQuestion),
     UserMessage("WHICH FILES DID THE TEAM CHANGE IN THE LAST MONTH?",
                 "which files did the team change in the last month?",
                 FALSE, FALSE, FALSE, TRUE, FALSE, TRUE, 10, FALSE),
     UserMessage("HELLO", "hello", FALSE, FALSE, FALSE, FALSE, FALSE, FALSE, 1, TRUE),
     UserMessage("what is Bash()?", "what is bash()?",
                 FALSE, TRUE, FALSE, FALSE, FALSE, TRUE, 3, TRUE),
     UserMessage("what is the process to debug the code step by step?",
                 "what is the process to debug the code step by step?",
                 FALSE, FALSE, TRUE, TRUE, TRUE, TRUE, 11, TRUE),
     UserMessage("where is the source of the parser", "where is the source of the parser",
                 FALSE, FALSE, FALSE, TRUE, FALSE, FALSE, 7, TRUE),
     UserMessage("tell me a joke", "tell me a joke",
                 FALSE, FALSE, FALSE, FALSE, FALSE, FALSE, 4, FALSE)}

InitSelector ==
    /\ Init
    /\ backend = "ok"

\* one call of shouldUseReActMode
ShouldUseReActMode(m) ==
    /\ pc = "idle"
    /\ message' = m
    /\ shouldUseReAct' = shouldUseReActMode(reactModeCache, m)
    /\ reactModeCache' = cacheAfter(reactModeCache, m)
    /\ UNCHANGED <<pc, backend, tools, session, response, reactEntries, loopVars,
                   parserVars, managerVars, cacheVars>>

NextSelector == \E m \in SelectorMessages : ShouldUseReActMode(m)

SpecSelector == InitSelector /\ [][NextSelector]_vars

\* ------------------------------------------------------------------------
\* The SessionManager on its own: sessions are created, written, cleared
\* and ended.  Of a session the message log is modelled; todos and context
\* are not.
\* ------------------------------------------------------------------------
\* the identifiers uuidv4 may return
SessionIds == {"id1", "id2"}

ChatMessages == {Msg("user", "hello"), Msg("assistant", "answer"), Msg("tool", "tool result")}

InitManager ==
    /\ Init
    /\ backend = "ok"

CreateSession(sessionId) ==
    /\ pc = "idle"
    /\ sessionId \notin DOMAIN sessions
    /\ sessions' = [id \in DOMAIN sessions \cup {sessionId} |->
                      IF id = sessionId THEN <<>> ELSE sessions[id]]
    /\ currentSessionId' = sessionId
    /\ UNCHANGED <<pc, message, backend, tools, session, reactModeCache, response,
                   reactEntries, loopVars, parserVars, shouldUseReAct, cacheVars>>

\* getCurrentSession: the identifier of the session it returns, "" for null
getCurrentSession(all, current) ==
    IF current # "" /\ current \in DOMAIN all THEN current ELSE ""

\* addMessage with a session; without one it faults and nothing changes
AddMessage(chatMessage) ==
    /\ pc = "idle"
    /\ getCurrentSession(sessions, currentSessionId) # ""
    /\ Len(sessions[currentSessionId]) < MaxLog
    /\ sessions' = [sessions EXCEPT ![currentSessionId] = Append(@, chatMessage)]
    /\ UNCHANGED <<pc, message, backend, tools, session, reactModeCache, response,
                   reactEntries, loopVars, parserVars, shouldUseReAct,
                   currentSessionId, cacheVars>>

ClearSession ==
    /\ pc = "idle"
    /\ getCurrentSession(sessions, currentSessionId) # ""
    /\ sessions' = [sessions EXCEPT ![currentSessionId] = <<>>]
    /\ UNCHANGED <<pc, message, backend, tools, session, reactModeCache, response,
                   reactEntries, loopVars, parserVars, shouldUseReAct,
                   currentSessionId, cacheVars>>

EndSession ==
    /\ pc = "idle"
    /\ currentSessionId # ""
    /\ sessions' = [id \in DOMAIN sessions \ {currentSessionId} |-> sessions[id]]
    /\ currentSessionId' = ""
    /\ UNCHANGED <<pc, message, backend, tools, session, reactModeCache, response,
                   reactEntries, loopVars, parserVars, shouldUseReAct, cacheVars>>

NextManager ==
    \/ \E id \in SessionIds : CreateSession(id)
    \/ \E msg \in ChatMessages : AddMessage(msg)
    \/ ClearSession
    \/ EndSession

SpecManager == InitManager /\ [][NextManager]_vars

\* ------------------------------------------------------------------------
\* The parsers on their own: texts are parsed, actions are rendered and
\* parsed again
\* ------------------------------------------------------------------------
LinesCall ==
    ActionSection("lines", "Grep", ParamsText("lines", <<Pair("pattern", "none", "TODO")>>))

ParserSections ==
    {Thought(c) : c \in ThoughtTexts}
      \cup {ReadCall, ShellCall, LinesCall, Unparseable}
      \cup {Observation("text"), FinalAnswerSection("X")}

ParserTexts == SeqsUpTo(ParserSections, MaxSections)

\* the names the call syntax is used with
CallNames == {"Read", "Bash", "tool_call"}

Keys == {"file_path", "command", "timeout"}
QuotedValues == {"./a.ts", "ls -la", "5000", "true", ""}
BareTokens == {"./a.ts", "5000", "true", "null", "undefined"}

Pairs ==
    {Pair(k, "dq", v) : k \in Keys, v \in QuotedValues}
      \cup {Pair(k, "none", v) : k \in Keys, v \in BareTokens}

ActionStrings ==
    {ActionSection("call", n, ParamsText("kv", ps)) :
        n \in CallNames, ps \in SeqsUpTo(Pairs, MaxPairs) \ {<<>>}}
      \cup {ActionSection("call", n, NoParams) : n \in CallNames}
      \cup {ActionSection("call", n, ParamsText("single", <<Pair("", q, v)>>)) :
               n \in CallNames, q \in {"dq", "none"},
               v \in {"./a.ts", "src*", "https", "TODO"}}
      \cup {LinesCall, Unparseable}

\* the actions the loop may have to render: a word-character tool name and
\* a parameters object
ParameterValues ==
    {Str("ls -la"), Str(""), TV("number", "5000"), TV("boolean", "true"),
     TV("null", "null"), Undefined}

Objects ==
    UNION {[ks -> ParameterValues] : ks \in SUBSET {"command", "timeout"}}

Actions ==
    {[tool |-> n, parameters |-> o] : n \in {"Read", "Bash", "shell", "tool_call"},
                                      o \in Objects}

\* the input of one parser call is chosen; pc tells the call to make
InitParser ==
    /\ InitState
    /\ backend = "ok"
    /\ actionResult = <<>>
    /\ shouldUseReAct = FALSE
    /\ sessions = NoSessions
    /\ currentSessionId = ""
    /\ responseCache = <<>>
    /\ clock = 0
    /\ pending = {}
    /\ returned = NoReturn
    /\ \/ /\ pc = "parseReActResponse"
          /\ parserContent \in ParserTexts
          /\ actionStr = <<>>
          /\ action = <<>>
       \/ /\ pc = "parseActionString"
          /\ parserContent = <<>>
          /\ actionStr \in {<<a>> : a \in ActionStrings}
          /\ action = <<>>
       \/ /\ pc = "renderAction"
          /\ parserContent = <<>>
          /\ actionStr = <<>>
          /\ action \in {<<a>> : a \in Actions}

ParseReActResponse ==
    /\ pc = "parseReActResponse"
    /\ reactResponse' = parseReActResponse(parserContent)
    /\ pc' = "parsed"
    /\ UNCHANGED <<message, backend, tools, session, reactModeCache,
                   currentMessages, stepCount, consecutiveErrors, hasValidAction,
                   observationText, toolCall, toolResult, response, mainCalls,
                   summaryCalls, reactEntries, alwaysActs, droppedAction,
                   parserContent, actionStr, actionResult, action, shouldUseReAct,
                   managerVars, cacheVars>>

ParseActionString ==
    /\ pc = "parseActionString"
    /\ actionResult' = parseActionString(actionStr[1])
    /\ pc' = "parsed"
    /\ UNCHANGED <<message, backend, tools, session, reactModeCache,
                   currentMessages, stepCount, consecutiveErrors, reactResponse,
                   hasValidAction, observationText, toolCall, toolResult, response,
                   mainCalls, summaryCalls, reactEntries, alwaysActs, droppedAction,
                   parserContent, actionStr, action, shouldUseReAct,
                   managerVars, cacheVars>>

\* the action is rendered as the loop renders it; the text is then parsed
RenderAction ==
    /\ pc = "renderAction"
    /\ actionStr' = <<renderAction(action[1])>>
    /\ pc' = "parseActionString"
    /\ UNCHANGED <<message, backend, tools, session, reactModeCache,
                   currentMessages, stepCount, consecutiveErrors, reactResponse,
                   hasValidAction, observationText, toolCall, toolResult, response,
                   mainCalls, summaryCalls, reactEntries, alwaysActs, droppedAction,
                   parserContent, actionResult, action, shouldUseReAct,
                   managerVars, cacheVars>>

NextParser ==
    \/ ParseReActResponse
    \/ ParseActionString
    \/ RenderAction

SpecParser == InitParser /\ [][NextParser]_vars

\* ------------------------------------------------------------------------
\* The response cache on its own: calls of sendMessageWithCache with and
\* without tools, each in two steps around the await of the backend, while
\* the clock advances.
\* ------------------------------------------------------------------------
InitCache ==
    /\ Init
    /\ backend = "ok"

nonCacheVars == <<pc, message, backend, tools, session, reactModeCache, response,
                  reactEntries, loopVars, parserVars, shouldUseReAct, managerVars>>

\* sendMessageWithCache up to its await: a stored response is returned, or
\* the call waits for the backend.  The calls waiting at one time differ in
\* their arguments.
SendMessageWithCache(messages, withTools) ==
    /\ pc = "idle"
    /\ [messages |-> messages, tools |-> withTools] \notin pending
    /\ IF ~withTools /\ shouldUseCache(messages)
       THEN LET got == getCachedResponse(responseCache, messages, clock)
            IN  /\ responseCache' = got.cache
                /\ IF got.hit
                   THEN /\ returned' = [messages |-> messages,
                                        response |-> got.response, cached |-> TRUE]
                        /\ UNCHANGED pending
                   ELSE /\ Cardinality(pending) < MaxPending
                        /\ pending' = pending \cup
                                        {[messages |-> messages, tools |-> withTools]}
                        /\ UNCHANGED returned
       ELSE /\ Cardinality(pending) < MaxPending
            /\ pending' = pending \cup {[messages |-> messages, tools |-> withTools]}
            /\ UNCHANGED <<responseCache, returned>>
    /\ UNCHANGED <<nonCacheVars, clock>>

\* the backend answers: the response is stored, if the call is one to cache,
\* and returned
SendMessageReturns(call) ==
    /\ pc = "idle"
    /\ call \in pending
    /\ pending' = pending \ {call}
    /\ responseCache' =
         IF ~call.tools /\ shouldUseCache(call.messages)
         THEN setCachedResponse(responseCache, call.messages,
                                answerTo(call.messages), clock)
         ELSE responseCache
    /\ returned' = [messages |-> call.messages, response |-> answerTo(call.messages),
                    cached |-> FALSE]
    /\ UNCHANGED <<nonCacheVars, clock>>

\* the backend faults: nothing is stored
SendMessageThrows(call) ==
    /\ pc = "idle"
    /\ call \in pending
    /\ pending' = pending \ {call}
    /\ UNCHANGED <<nonCacheVars, responseCache, clock, returned>>

Tick ==
    /\ pc = "idle"
    /\ clock < MaxClock
    /\ clock' = clock + 1
    /\ UNCHANGED <<nonCacheVars, responseCache, pending, returned>>

NextCache ==
    \/ \E messages \in Conversations, withTools \in BOOLEAN :
          SendMessageWithCache(messages, withTools)
    \/ \E call \in pending : SendMessageReturns(call)
    \/ \E call \in pending : SendMessageThrows(call)
    \/ Tick

SpecCache == InitCache /\ [][NextCache]_vars

\* ------------------------------------------------------------------------
\* Properties
\* ------------------------------------------------------------------------
\* the positions inside one run of generateReActResponse
RunPositions == {"loop", "callModel", "steps", "check", "summary"}

\* a measure of the work a run has left: the model calls the budget still
\* allows, then the position inside the iteration and the steps to process
Variant ==
    (maxSteps - stepCount) * (MaxSections + 4)
      + CASE pc = "steps" -> 3 + Len(reactResponse.steps)
          [] pc = "check" -> 3
          [] pc = "loop" -> 2
          [] OTHER -> 1

\* C1: with a backend that answers every call, a run of the reasoning loop
\* terminates: it makes at most maxSteps model calls in the main loop and at
\* most one forced-summary call, every step inside the run lowers a measure
\* that is never negative, and when every response requested a parseable
\* action and held no Final Answer the text returned is not empty.
C1_LoopTerminates ==
    /\ [](backend = "ok" => mainCalls <= maxSteps /\ summaryCalls <= 1 /\ Variant >= 0)
    /\ [](backend = "ok" /\ pc = "respond" /\ mainCalls >= 1 /\ alwaysActs
            => ~response.empty)
    /\ [][backend = "ok" /\ pc \in RunPositions /\ pc' \in RunPositions
            => Variant' < Variant]_vars

C1_Witness ==
    /\ backend = "ok" /\ pc = "respond" /\ alwaysActs
    /\ mainCalls = maxSteps /\ summaryCalls = 1 /\ ~response.empty

\* C2: after a fault of the backend in a reasoning loop run, the message is
\* answered by the single-shot path: the reasoning loop is entered at most
\* once per user message.
C2_NoSecondEntry == reactEntries <= 1

\* C3: with a backend that faults on every call, sendMessage on a message
\* classified as multi-step reaches the point where it returns a response.
C3_FallbackReturns ==
    (backend = "down" /\ pc = "generateResponse"
       /\ shouldUseReActMode(reactModeCache, message)) ~> (pc = "respond")

\* C4: when an iteration ends without terminating the run, the recovery
\* prompt is appended if and only if consecutiveErrors is exactly
\* maxConsecutiveErrors.
C4_RecoveryExactlyAtMax ==
    [][(pc = "check" /\ pc' = "loop")
         => ((currentMessages' = Append(currentMessages, recoveryPrompt))
               <=> consecutiveErrors = maxConsecutiveErrors)]_vars

\* C5: consecutiveErrors stays between 0 and maxConsecutiveErrors in every
\* state, also between the steps of one response.
C5_ErrorsBounded == consecutiveErrors \in 0..maxConsecutiveErrors

\* C6: right after a step whose tool execution returned success = true,
\* consecutiveErrors is 0, whatever the data of the result.
C6_SuccessResets ==
    (pc \in {"steps", "check"} /\ toolCall # "" /\ toolResult.success)
       => consecutiveErrors = 0

\* C7: executeTool with a name that is not registered returns a result with
\* success = false and the tool-not-found error, throws nothing and invokes
\* no validate and no execute.
C7_UnknownToolResult ==
    (toolCall # "" /\ ~hasTool(tools, toolCall))
       => /\ ~toolResult.threw
          /\ ~toolResult.success
          /\ toolResult.error = "Tool not found"
          /\ toolResult.validated = "" /\ toolResult.executed = ""

\* C8: when the validate of a registered tool returns false, executeTool
\* returns success = false with the invalid-parameters error and the tool's
\* execute is not called.
C8_InvalidParamsRejected ==
    toolResult.validated = "false"
       => /\ ~toolResult.threw
          /\ ~toolResult.success
          /\ toolResult.error = "Invalid parameters"
          /\ toolResult.executed = ""

C8_Witness == hasTool(tools, toolCall) /\ toolResult.validated = "false"

\* C9: a fault raised by the validate or the execute of a registered tool
\* does not leave executeTool: the call returns success = false with the
\* message of the fault (of a fault that is an Error object; a thrown value
\* of another kind has no message and gives 'Unknown error'), and a fault
\* that does leave executeTool was raised before any tool code ran.
C9_FaultsContained ==
    /\ (toolResult.validated \in Faults \/ toolResult.executed \in Faults)
          => /\ ~toolResult.threw
             /\ ~toolResult.success
             /\ toolResult.error # ""
             /\ toolResult.validated = "throws" => toolResult.error = "validate fault"
             /\ toolResult.executed = "throws" => toolResult.error = "execute fault"
    /\ toolResult.threw => toolResult.validated = "" /\ toolResult.executed = ""

C9_Witness ==
    /\ hasTool(tools, toolCall) /\ toolResult.validated = "throws"
    /\ ~toolResult.threw /\ ~toolResult.success

\* C10: a step whose action names an unregistered tool does not abort the
\* run: consecutiveErrors grows by one, the observation is the execution
\* error, an assistant and a tool message are appended to the conversation
\* and the loop goes on with the next step or the termination check.
C10_UnknownToolObserved ==
    [][(/\ pc = "steps"
        /\ Head(reactResponse.steps).action # <<>>
        /\ ~hasTool(tools, Head(reactResponse.steps).action[1].tool))
         => /\ consecutiveErrors' = consecutiveErrors + 1
            /\ observationText' = "Tool execution error: Tool not found"
            /\ currentMessages' =
                 currentMessages \o observationMessages(Head(reactResponse.steps))
            /\ reactResponse'.steps = Tail(reactResponse.steps)
            /\ pc' \in {"steps", "check"}]_vars

C10_Witness ==
    /\ pc \in {"steps", "check"} /\ toolCall = "shell" /\ toolResult.threw
    /\ observationText = "Tool execution error: Tool not found"
    /\ consecutiveErrors >= 1

\* C11: when all steps of a response are processed and requiresMoreActions
\* is false or a final answer is present, the loop appends exactly one
\* assistant message to the session, holding the final answer (the default
\* completion text when the parse has none) tagged with the reasoning chain
\* and the step count, makes no model call and returns that text; sendMessage
\* is then left with nothing to do but to deliver it.
C11_TerminationRecorded ==
    /\ [](pc = "check" => reactResponse.steps = <<>>)
    /\ [][(pc = "check"
            /\ (~reactResponse.requiresMoreActions \/ reactResponse.finalAnswer # ""))
           => /\ pc' = "respond"
              /\ response' = IF reactResponse.finalAnswer # ""
                             THEN Text("final answer", FALSE, FALSE)
                             ELSE Text("Task completed successfully.", FALSE, FALSE)
              /\ session' = Append(session, finalMessage(response'.kind, stepCount))
              /\ mainCalls' = mainCalls /\ summaryCalls' = summaryCalls]_vars
    /\ [][pc = "respond" => pc' = "idle"]_vars

C11_Witness ==
    /\ pc = "respond" /\ hasValidAction /\ stepCount >= 2
    /\ response.kind = "final answer"
    /\ session[Len(session)] = finalMessage("final answer", stepCount)

\* C12: when stepCount has reached maxSteps at the loop guard, the summary
\* prompt is appended to the conversation and exactly one more model call is
\* made; its answer is returned as the parsed final answer if there is one
\* and as the raw text otherwise, and no tool is executed and nothing is
\* logged for it.
C12_ForcedSummaryOnce ==
    /\ [][(pc = "loop" /\ stepCount >= maxSteps)
           => /\ pc' = "summary"
              /\ currentMessages' = Append(currentMessages, summaryPrompt)
              /\ mainCalls' = mainCalls /\ summaryCalls' = summaryCalls]_vars
    /\ [][(pc = "summary" /\ pc' # "generateResponse")
           => /\ pc' = "respond"
              /\ summaryCalls = 0 /\ summaryCalls' = 1
              /\ mainCalls' = mainCalls
              /\ toolCall' = toolCall /\ toolResult' = toolResult
              /\ session' = session
              /\ \E r \in ModelResponses :
                    response' = IF r.parsed.finalAnswer # ""
                                THEN Text("final answer", FALSE, FALSE)
                                ELSE r.content]_vars

C12_Witness ==
    /\ pc = "respond" /\ stepCount = maxSteps /\ summaryCalls = 1
    /\ response.kind = "final answer"

\* C13: when the first response of a run parses to zero steps, the loop
\* returns the raw text of that response after this one model call: no tool
\* is executed, nothing is appended to the conversation or to the session.
C13_DirectAnswer ==
    /\ [](pc = "steps" => reactResponse.steps # <<>>)
    /\ [][(pc = "callModel" /\ stepCount = 0 /\ pc' \notin {"steps", "generateResponse"})
           => /\ pc' = "respond"
              /\ response'.kind = "raw response"
              /\ stepCount' = 1 /\ mainCalls' = 1
              /\ currentMessages' = <<>>
              /\ toolCall' = "" /\ toolResult' = NoOutcome
              /\ session' = session
              /\ consecutiveErrors' = consecutiveErrors]_vars

C13_Witness ==
    /\ pc = "respond" /\ response.kind = "raw response"
    /\ stepCount = 1 /\ mainCalls = 1 /\ summaryCalls = 0 /\ toolCall = ""

\* C14: when a response of the second or a later iteration parses to zero
\* steps, exactly one corrective user message is appended to the
\* conversation and the loop goes back to its guard, from where another
\* model call follows while the step budget lasts; consecutiveErrors, the
\* session and the tool state are left as they were.
C14_FormatGuidance ==
    /\ [][(pc = "callModel" /\ stepCount >= 1 /\ pc' \notin {"steps", "generateResponse"})
           => /\ pc' = "loop"
              /\ currentMessages' = <<formatGuidance>>
              /\ UNCHANGED <<consecutiveErrors, session, toolCall, toolResult,
                             response>>]_vars
    /\ [][(pc = "loop" /\ currentMessages = <<formatGuidance>>)
           => pc' = IF stepCount < maxSteps THEN "callModel" ELSE "summary"]_vars

C14_Witness ==
    /\ pc = "callModel" /\ currentMessages = <<formatGuidance>>
    /\ stepCount >= 2 /\ consecutiveErrors > 0

\* C15: a response whose only step has an Action section that cannot be
\* parsed, and that carries no final answer, leaves the step with its
\* thought and without action, does not change consecutiveErrors, and is
\* followed by another model call: the termination check sends the run back
\* to the loop guard.
C15_UnparseableContinues ==
    /\ [](pc = "steps" /\ droppedAction
            => Head(reactResponse.steps).thought # ""
                 /\ Head(reactResponse.steps).action = <<>>)
    /\ [][(pc = "steps" /\ droppedAction)
            => consecutiveErrors' = consecutiveErrors]_vars
    /\ [][(pc = "check" /\ droppedAction) => pc' = "loop"]_vars

\* C16: the text of one Thought / Action / Observation triple, the action
\* in call syntax, followed by a Final Answer section parses to exactly one
\* step with its thought, action and observation set, finalAnswer equal to
\* the text of the Final Answer section and requiresMoreActions false.
C16_WellFormedParse ==
    (/\ pc = "parsed" /\ Len(parserContent) = 4
     /\ parserContent[1].type = "Thought"
     /\ parserContent[2].type = "Action" /\ parserContent[2].content = "call"
     /\ parserContent[3].type = "Observation"
     /\ parserContent[4].type = "Final Answer")
       => /\ Len(reactResponse.steps) = 1
          /\ reactResponse.steps[1].thought = parserContent[1].content
          /\ reactResponse.steps[1].action # <<>>
          /\ reactResponse.steps[1].action = parseActionString(parserContent[2])
          /\ reactResponse.steps[1].observation = parserContent[3].content
          /\ reactResponse.finalAnswer = parserContent[4].content
          /\ ~reactResponse.requiresMoreActions

C16_Witness ==
    /\ pc = "parsed"
    /\ parserContent = <<Thought("short"), ReadCall, Observation("text"),
                         FinalAnswerSection("X")>>
    /\ Len(reactResponse.steps) = 1 /\ reactResponse.finalAnswer = "X"
    /\ reactResponse.steps[1].action[1].tool = "Read"

\* C17: the text of a single Thought section whose text has fewer than 100
\* characters and no conclusion keyword parses to one step with that
\* thought and no action, no finalAnswer, and requiresMoreActions true.
C17_ThoughtOnlyRequiresMore ==
    (/\ pc = "parsed" /\ Len(parserContent) = 1
     /\ parserContent[1].type = "Thought"
     /\ length(parserContent[1].content) < 100
     /\ ~includesIndicator(parserContent[1].content))
       => /\ Len(reactResponse.steps) = 1
          /\ reactResponse.steps[1].thought = parserContent[1].content
          /\ reactResponse.steps[1].action = <<>>
          /\ reactResponse.finalAnswer = ""
          /\ reactResponse.requiresMoreActions

\* C18: for the text of a single Thought section, the thought is promoted
\* to finalAnswer and its step marked finish exactly when the thought has
\* more than 100 characters or holds a conclusion keyword.
C18_ThoughtPromotion ==
    (pc = "parsed" /\ Len(parserContent) = 1 /\ parserContent[1].type = "Thought")
       => /\ Len(reactResponse.steps) = 1
          /\ IF length(parserContent[1].content) > 100
                  \/ includesIndicator(parserContent[1].content)
             THEN /\ reactResponse.finalAnswer = parserContent[1].content
                  /\ reactResponse.steps[1].finish
             ELSE /\ reactResponse.finalAnswer = ""
                  /\ ~reactResponse.steps[1].finish

C18_Witness ==
    /\ pc = "parsed"
    /\ parserContent = <<Thought("long")>>
    /\ reactResponse.finalAnswer = "long" /\ reactResponse.steps[1].finish

\* the value the coercion rule gives to the characters of a value: the
\* literals, then a finite numeric token, and a string for anything else
coercedValue(raw) ==
    CASE raw \in {"true", "false"} -> TV("boolean", raw)
      [] raw = "null" -> TV("null", "null")
      [] raw = "undefined" -> Undefined
      [] raw = "5000" -> TV("number", "5000")
      [] OTHER -> Str(raw)

\* C19: parseActionString on the call syntax Name(key=value, ...) returns
\* the tool Name and parameters that map every key to its coerced value.
C19_CallSyntaxParsed ==
    (/\ pc = "parsed" /\ action = <<>> /\ actionStr # <<>>
     /\ actionStr[1].content = "call" /\ actionStr[1].name # "tool_call"
     /\ actionStr[1].args.form = "kv")
       => actionResult =
            <<[tool |-> actionStr[1].name,
               parameters |->
                 fromEntries([i \in 1..Len(actionStr[1].args.pairs) |->
                                [key |-> actionStr[1].args.pairs[i].key,
                                 value |-> coercedValue(actionStr[1].args.pairs[i].raw)]],
                             EmptyObject)]>>

\* the value of a key in a parameters object, undefined when it is missing
valueAt(parameters, k) == IF k \in DOMAIN parameters THEN parameters[k] ELSE Undefined

\* two actions are equivalent up to the coercion of scalar values: the
\* same tool and, key by key, values of the same text
equivalent(a, b) ==
    /\ a.tool = b.tool
    /\ \A k \in DOMAIN a.parameters \cup DOMAIN b.parameters :
          valueAt(a.parameters, k).v = valueAt(b.parameters, k).v

\* C20: an action rendered as the loop renders it, tool(JSON of the
\* parameters), and parsed again by parseActionString gives an equivalent
\* action.
C20_RenderParseRoundTrip ==
    (pc = "parsed" /\ action # <<>>) => (actionResult # <<>> /\ equivalent(actionResult[1], action[1]))

\* C21: the decision shouldUseReActMode returns for a message is the one the
\* classifier computes from the text of that message alone, whatever calls
\* were made before and whatever the cache holds.
C21_DecisionFromTextAlone ==
    message # NoMessage => shouldUseReAct = classify(message)

\* C22: shouldUseReActMode returns false for every message that matches a
\* pattern of the denylist, whatever else the message holds.
C22_DenylistForcesSingleShot ==
    (message # NoMessage /\ message.simple) => ~shouldUseReAct

\* C28: a message with an action verb and a subject noun that names no
\* registered tool in call syntax and matches no denylist pattern is given
\* to the Reasoning Loop.
C28_VerbAndNounUseLoop ==
    (/\ message # NoMessage
     /\ message.verb /\ message.noun
     /\ ~message.direct /\ ~message.explicit /\ ~message.simple)
        => shouldUseReAct

\* a verb-and-noun message was decided while the cache held other entries
C28_Witness ==
    /\ message.verb /\ message.noun
    /\ ~message.direct /\ ~message.explicit /\ ~message.simple
    /\ shouldUseReAct
    /\ Cardinality(DOMAIN reactModeCache) > 1

IsPrefix(a, b) == Len(a) <= Len(b) /\ SubSeq(b, 1, Len(a)) = a

\* C23: whatever operation the SessionManager performs, the message log of
\* a session that exists before and after it keeps every message it had, in
\* place: the log only grows at its end.
C23_LogAppendOnly ==
    [][\A id \in DOMAIN sessions :
          id \in DOMAIN sessions' => IsPrefix(sessions[id], sessions'[id])]_vars

\* C24: within one response the actions are dispatched in the order of the
\* parsed steps, one per pass of the loop, each with its result or fault
\* there before the next pass; outside the passes of the loop over the steps
\* no tool is dispatched, and a model call is made only when no step of the
\* response is left.
C24_StepsInOrder ==
    [][/\ pc = "steps" =>
            /\ reactResponse.steps # <<>>
            /\ reactResponse'.steps = Tail(reactResponse.steps)
            /\ LET step == Head(reactResponse.steps)
               IN  IF step.action # <<>>
                   THEN toolCall' = step.action[1].tool /\ toolResult' # NoOutcome
                   ELSE toolCall' = "" /\ toolResult' = NoOutcome
       /\ pc \in {"loop", "callModel", "check", "summary"} =>
            (toolCall' \in {toolCall, ""} /\ toolResult' \in {toolResult, NoOutcome})
       /\ (mainCalls' = mainCalls + 1 \/ summaryCalls' = summaryCalls + 1) =>
            reactResponse.steps = <<>>]_vars

\* a step's tool has been executed and the next step of the same response
\* holds an action of another tool
C24_Witness ==
    /\ pc = "steps"
    /\ toolCall # "" /\ toolResult # NoOutcome
    /\ reactResponse.steps # <<>>
    /\ Head(reactResponse.steps).action # <<>>
    /\ Head(reactResponse.steps).action[1].tool # toolCall

\* C25: when no credential is configured, the response sendMessage gives
\* for a message without a direct tool call is the configuration guidance,
\* on the single-shot path and on the path of the Reasoning Loop.
C25_GuidanceWhenUnconfigured ==
    (backend = "unconfigured" /\ pc = "respond" /\ ~message.direct)
        => response.kind = "configuration guidance"

\* C26: during a run of the Reasoning Loop stepCount is the number of model
\* calls the main loop has made, it is at most maxSteps, it never goes down
\* and it goes up by exactly 1 with each model call of the main loop.
C26_StepCountCountsCalls ==
    /\ [](pc \in RunPositions => (stepCount = mainCalls /\ stepCount <= maxSteps))
    /\ [][(pc \in RunPositions /\ pc' \in RunPositions) =>
             /\ stepCount' \in {stepCount, stepCount + 1}
             /\ (stepCount' = stepCount + 1) <=> (pc = "callModel")]_vars

\* the main loop has made maxSteps model calls
C26_Witness ==
    pc = "summary" /\ stepCount = maxSteps /\ mainCalls = maxSteps

\* C27: the conversation a run of the Reasoning Loop starts with is the
\* ReAct system prompt, the session history before the new user message,
\* and the new user message once, at the end.
C27_InitialConversation ==
    (pc = "loop" /\ stepCount = 0 /\ session # <<>>) =>
        currentMessages =
            <<Msg("system", "ReAct system prompt")>>
                \o SubSeq(session, 1, Len(session) - 1)
                \o <<Msg("user", message.text)>>

C30_OnePromptPerIteration ==
    [][(pc = "check" /\ pc' = "loop") =>
          LET n == Len(currentMessages)
          IN  /\ Len(currentMessages') = n + 1
              /\ SubSeq(currentMessages', 1, n) = currentMessages
              /\ IF consecutiveErrors >= maxConsecutiveErrors
                 THEN /\ currentMessages'[n + 1] = recoveryPrompt
                      /\ consecutiveErrors' = 0
                 ELSE /\ currentMessages'[n + 1] = continuePrompt
                      /\ consecutiveErrors' = consecutiveErrors]_vars

\* the recovery prompt has been appended after the observations of the
\* iteration and the counter is reset
C30_Witness ==
    /\ pc = "loop"
    /\ stepCount > 0
    /\ consecutiveErrors = 0
    /\ Len(currentMessages) >= 3
    /\ currentMessages[Len(currentMessages)] = recoveryPrompt

\* the sections of a text that have no thought to attach to: an Action or
\* Observation section with no Thought of non-empty content before it since
\* the start of the text or the last Observation that closed a step
RECURSIVE withoutOrphans(_, _)
withoutOrphans(content, open) ==
    IF content = <<>> THEN <<>>
    ELSE LET sec == Head(content)
         IN  CASE sec.type = "Thought" ->
                    <<sec>> \o withoutOrphans(Tail(content), sec.content # "")
               [] sec.type = "Action" ->
                    (IF open THEN <<sec>> ELSE <<>>) \o withoutOrphans(Tail(content), open)
               [] sec.type = "Observation" ->
                    (IF open THEN <<sec>> ELSE <<>>) \o withoutOrphans(Tail(content), FALSE)
               [] OTHER -> <<sec>> \o withoutOrphans(Tail(content), open)

\* C31: every step parseReActResponse returns has a non-empty thought, and
\* an Action or Observation section without a Thought before it in its step
\* leaves no trace in the steps: the text without such sections parses to
\* the same steps.
C31_StepsHaveThoughts ==
    (pc = "parsed" /\ parserContent # <<>>) =>
        /\ \A i \in 1..Len(reactResponse.steps) : reactResponse.steps[i].thought # ""
        /\ reactResponse.steps = parseReActResponse(withoutOrphans(parserContent, FALSE)).steps

\* a text that starts with a parseable Action, and one that follows an
\* Observation, both without Thought, has been parsed
C31_Witness ==
    /\ pc = "parsed"
    /\ Len(parserContent) = 4
    /\ parserContent[1] = ReadCall
    /\ parserContent[2].type = "Thought" /\ parserContent[2].content # ""
    /\ parserContent[3].type = "Observation"
    /\ parserContent[4] = ReadCall
    /\ Len(reactResponse.steps) = 1
    /\ reactResponse.steps[1].action = <<>>

\* C32: after every call of shouldUseReActMode the memo cache holds at most
\* as many entries as its capacity.
C32_CacheWithinCapacity ==
    Cardinality(DOMAIN reactModeCache) <= MaxCacheSize

\* C33: whenever the guard of the main loop is evaluated consecutiveErrors
\* is below maxConsecutiveErrors, so the loop is left for the forced summary
\* only when stepCount has reached maxSteps.
C33_GuardNeverFailsOnErrors ==
    /\ pc = "loop" => consecutiveErrors < maxConsecutiveErrors
    /\ pc = "summary" => stepCount >= maxSteps

\* the guard is evaluated after an iteration that ended with the recovery
\* prompt
C33_Witness ==
    /\ pc = "loop"
    /\ stepCount >= 2
    /\ hasValidAction
    /\ \E i \in 1..Len(currentMessages) : currentMessages[i] = recoveryPrompt
    /\ consecutiveErrors < maxConsecutiveErrors

\* C34: in every result of parseReActResponse a final answer, explicit or
\* promoted, excludes requiresMoreActions, and requiresMoreActions holds
\* only without steps or with a last step that has an action and no
\* observation.
C34_ParseResultConsistent ==
    (pc = "parsed" /\ parserContent # <<>>) =>
        /\ reactResponse.finalAnswer # "" => ~reactResponse.requiresMoreActions
        /\ reactResponse.requiresMoreActions =>
              \/ reactResponse.steps = <<>>
              \/ /\ Last(reactResponse.steps).action # <<>>
                 /\ Last(reactResponse.steps).observation = ""

\* a text whose last step has an action, with a Final Answer section, and so
\* without requiresMoreActions
C34_Witness ==
    /\ pc = "parsed"
    /\ parserContent = <<Thought("short"), ReadCall, FinalAnswerSection("X")>>
    /\ reactResponse.finalAnswer = "X"
    /\ Last(reactResponse.steps).action # <<>>
    /\ ~reactResponse.requiresMoreActions

\* C35: within a run the conversation only grows between two model calls,
\* and at every model call after the first it has grown since the previous
\* call and ends with a user prompt.  (currentMessages holds the messages
\* added since the previous call.)
C35_ConversationExtends ==
    /\ [][(pc \in RunPositions /\ pc' \in RunPositions /\ mainCalls' = mainCalls)
             => IsPrefix(currentMessages, currentMessages')]_vars
    /\ []((pc \in {"callModel", "summary"} /\ stepCount >= 1) =>
             /\ currentMessages # <<>>
             /\ currentMessages[Len(currentMessages)].role = "user")

\* a second model call is due after an iteration that executed an action
C35_Witness ==
    /\ pc = "callModel"
    /\ stepCount >= 1
    /\ Len(currentMessages) >= 3
    /\ currentMessages[Len(currentMessages)] = continuePrompt
    /\ currentMessages[Len(currentMessages) - 1].role = "tool"

\* C36: when a sendMessage call has completed, the session log holds the
\* user's message once and the response text in one assistant message, the
\* last of the log.
C36_OneUserOneAssistant ==
    (pc = "idle" /\ session # <<>>) =>
        LET last == session[Len(session)]
        IN  /\ Cardinality({i \in 1..Len(session) : session[i].role = "user"}) = 1
            /\ last.role = "assistant"
            /\ Cardinality({i \in 1..Len(session) :
                              /\ session[i].role = "assistant"
                              /\ session[i].content = last.content}) = 1

\* C37: a response of the main loop that holds a Final Answer section ends
\* the run in its iteration with the text of that section: either the run
\* returns the final answer at once, or the steps of the response are
\* processed with the final answer recorded for the termination check.
C37_FinalAnswerEndsRun ==
    [][\A r \in ModelResponses :
          (ModelCall(r) /\ r.content.labelled) =>
              \/ pc' = "respond" /\ response'.kind = "final answer"
              \/ pc' = "steps" /\ reactResponse'.finalAnswer # ""]_vars

\* C38: a step with an action has its tool run once, whether or not the
\* model wrote an Observation for it, and the observation appended to the
\* conversation is the one rendered from the outcome of that run, never the
\* Observation text of the model; a step without an action runs no tool and
\* appends nothing.
C38_OneExecutionPerAction ==
    [][pc = "steps" =>
          LET step == Head(reactResponse.steps)
          IN  IF step.action # <<>>
              THEN /\ toolCall' = step.action[1].tool
                   /\ \E b \in ToolBehaviours :
                         /\ toolResult' = executeTool(tools, step.action[1].tool, b)
                         /\ observationText' =
                              stepOutcome(consecutiveErrors, toolResult').observation
                   /\ observationText' # step.observation
                   /\ Len(currentMessages') = Len(currentMessages) + 2
                   /\ currentMessages'[Len(currentMessages')].role = "tool"
                   /\ currentMessages'[Len(currentMessages')].name = step.action[1].tool
              ELSE /\ toolCall' = ""
                   /\ toolResult' = NoOutcome
                   /\ currentMessages' = currentMessages]_vars

\* the last step of a response without Final Answer section had an action
\* and an Observation written by the model, and its tool has been run
C38_Witness ==
    /\ pc = "check"
    /\ toolCall # ""
    /\ toolResult # NoOutcome
    /\ reactResponse.finalAnswer = ""
    /\ ~reactResponse.requiresMoreActions
    /\ observationText \notin {"", "text"}

\* C39: the response cache never holds more entries than its capacity, and
\* a call of sendMessageWithCache that returns without waiting for the
\* backend returns a stored response: the response to the very conversation
\* it was called with, from an entry younger than the time-to-live.
C39_CacheReturnsOwnResponse ==
    /\ [](Len(responseCache) <= ResponseCacheMaxSize)
    /\ [][\A messages \in Conversations :
             (SendMessageWithCache(messages, FALSE) /\ pending' = pending) =>
                 /\ returned'.cached
                 /\ returned'.response = answerTo(messages)
                 /\ \E i \in 1..Len(responseCache) :
                       /\ responseCache[i].response = returned'.response
                       /\ clock - responseCache[i].timestamp < CacheTTL]_vars

====
